---- MODULE Spec2Model ----
(***************************************************************************)
(* nannou-bubbles (src/src/main.rs): a population of growing, orbiting,    *)
(* time-limited dots.  One frame is one call of Model::update: the egui    *)
(* settings window is laid out (and may mutate Settings or clear the       *)
(* population), then, unless paused, every dot is updated, dead dots are   *)
(* dropped by retain, a gamma distribution is built and sampled, and at    *)
(* most one new dot is pushed.                                             *)
(*                                                                         *)
(* Numbers: f32 seconds and pixels are modelled as integers (whole seconds *)
(* and whole pixels); random draws are taken from small sample sets that   *)
(* lie inside the ranges the code draws from.  Angles are counted in        *)
(* quarter turns, so that a rotation maps lattice points to lattice        *)
(* points exactly.                                                         *)
(*                                                                         *)
(* x_limit is written and read by the Radius plot alone.  Spec and         *)
(* SpecDegenerate follow the settings window and the simulation step and   *)
(* leave the plot out; SpecPlots runs the whole of Model::update, plot     *)
(* included, from the default command-line options.                        *)
(***************************************************************************)
EXTENDS Integers, Sequences, FiniteSets

VARIABLES
    settings,   \* Model.settings : Settings
    dots,       \* Model.dots : Vec<Dot>
    crashed,    \* TRUE once a panic has unwound Model::update (process gone)
    x_limit,    \* Model.x_limit : u64
    last,       \* history: what the most recent call of Model::update did
    hist        \* history kept by SpecPlots, SpecUi and SpecLife

vars == <<settings, dots, crashed, x_limit, last, hist>>

---------------------------------------------------------------------------
(* Bounds and sample sets *)

\* Largest population target the model explores (settings.max_count is a u8).
MaxCount == 2

\* Largest elapsed time between two frames, update.since_last, in seconds.
MaxDt == 2

DtSamples == 0..MaxDt

\* Values of OPTS.num_dots / the "Max Dots" slider that are explored.
CountSamples == 0..MaxCount

\* Values of OPTS.speed / the "Max Speed" slider that are explored.
SpeedSettingSamples == {0, 1}

\* Values of OPTS.rate / the "Growth Rate" slider that are explored
\* (100 is the command-line default).
RateSettingSamples == {0, 100}

\* Values of the "Shape" and "Scale" sliders that are explored.
ShapeSamples == {1, 10}
ScaleSamples == {10}

\* Values of shape and scale outside the slider range, for a Settings value
\* that does not come from the sliders.
DegenerateSamples == {-1, 0}

\* Raw gamma samples (before the clamp) that are explored.
GammaSamples == {5, 11, 600}

\* Uniform samples that are explored (intersected with the drawn range).
SpeedSamples == {-1}
GrowthSamples == {0, 1}
TtlSamples == {1, 2}

\* Colours (r, g, b, a) and points (x, y) that are explored.  Spec spawns
\* every dot on its pivot; SpecLife spawns dots away from their pivot.
ColorSamples == {<<0, 0, 0, 128>>}
PointSamples == {<<0, 0>>}
OrbitOriginSamples == {<<0, 0>>, <<1, 2>>}
OrbitPivotSamples == {<<3, 4>>}

---------------------------------------------------------------------------
(* Dot *)

\* #[builder(default=10.0)] radius
DefaultRadius == 10

\* max_radius.clamp(0.0, 512.0)
MaxRadiusLimit == 512

\* Dot::builder()....build() with the fields Model::update sets; radius keeps
\* its builder default.
BuildDot(color, origin, pivot, max_radius, speed, growth_rate, ttl) ==
    [color |-> color, origin |-> origin, pivot |-> pivot,
     radius |-> DefaultRadius, max_radius |-> max_radius, speed |-> speed,
     growth_rate |-> growth_rate, ttl |-> ttl]

\* Vec2 subtraction and addition
Sub(a, b) == <<a[1] - b[1], a[2] - b[2]>>
Add(a, b) == <<a[1] + b[1], a[2] + b[2]>>

\* Vec2::rotate(angle) = (x cos - y sin, x sin + y cos), for an angle of
\* `turns` quarter turns
Rotate(v, turns) ==
    CASE turns % 4 = 0 -> v
      [] turns % 4 = 1 -> <<0 - v[2], v[1]>>
      [] turns % 4 = 2 -> <<0 - v[1], 0 - v[2]>>
      [] turns % 4 = 3 -> <<v[2], 0 - v[1]>>

\* Mutant of Orbit: the offset is rotated but not carried back to the pivot.
OrbitAboutZero(origin, pivot, step) == Rotate(Sub(origin, pivot), step)

\* offset = origin - pivot; origin = pivot + offset.rotate(step)
Orbit(origin, pivot, step) == Add(pivot, Rotate(Sub(origin, pivot), step))

\* Mutant of CheckedSubOrZero: the subtraction without the floor at zero.
CheckedSubUnfloored(ttl, delta) == ttl - delta

\* Mutant of CheckedSubOrZero: the time to live never runs down.
CheckedSubFrozen(ttl, delta) == ttl

\* Duration::checked_sub(delta).unwrap_or(Duration::ZERO)
CheckedSubOrZero(ttl, delta) == IF ttl >= delta THEN ttl - delta ELSE 0

\* Mutant of DotUpdate: growth also pushes the target radius away.
DotUpdateMovingTarget(d, delta) ==
    [d EXCEPT !.ttl = CheckedSubOrZero(d.ttl, delta),
              !.radius = IF d.radius < d.max_radius
                         THEN d.radius + d.growth_rate * delta
                         ELSE d.radius,
              !.max_radius = d.max_radius + d.growth_rate * delta,
              !.origin = Orbit(d.origin, d.pivot, d.speed * delta)]

\* Dot::update: ttl runs down to zero; radius grows by growth_rate * delta
\* while it is below max_radius (the sum is stored as is); origin turns
\* about pivot by speed * delta.
DotUpdate(d, delta) ==
    [d EXCEPT !.ttl = CheckedSubOrZero(d.ttl, delta),
              !.radius = IF d.radius < d.max_radius
                         THEN d.radius + d.growth_rate * delta
                         ELSE d.radius,
              !.origin = Orbit(d.origin, d.pivot, d.speed * delta)]

\* self.dots.iter_mut().for_each(|d| d.update(update))
UpdateAll(s, delta) == [i \in 1..Len(s) |-> DotUpdate(s[i], delta)]

\* Mutant of IsRetained: the retain predicate without the time-to-live test.
IsRetainedByRadiusOnly(d) == d.radius < d.max_radius

\* the retain predicate: d.ttl > Duration::ZERO && d.radius < d.max_radius
IsRetained(d) == d.ttl > 0 /\ d.radius < d.max_radius

\* self.dots.retain(...)
Retain(s) == SelectSeq(s, IsRetained)

---------------------------------------------------------------------------
(* Random sources *)

\* Gamma::new(shape, scale) is Ok only for shape > 0 and scale > 0; the
\* code unwraps the result.
GammaNewOk(shape, scale) == shape > 0 /\ scale > 0

\* f32::clamp(lo, hi)
Clamp(x, lo, hi) == IF x < lo THEN lo ELSE IF x > hi THEN hi ELSE x

\* nannou::rand::random_range(min, max): the bounds are swapped when
\* min > max, then a value of the half-open range [lo, hi) is drawn.
RangeLo(min, max) == IF min <= max THEN min ELSE max
RangeHi(min, max) == IF min <= max THEN max ELSE min

\* gen_range panics on an empty range (lo = hi).
RangeEmpty(min, max) == RangeLo(min, max) = RangeHi(min, max)

random_range(min, max) == RangeLo(min, max)..(RangeHi(min, max) - 1)

---------------------------------------------------------------------------
(* Settings and the settings window *)

\* Mutant of Slider: the slider stores whatever value is tried.
SliderUnclamped(samples, lo, hi) == samples

\* ui.add(egui::Slider::new(&mut value, lo..=hi)): of the values tried, the
\* ones a drag can set.
Slider(samples, lo, hi) == {v \in samples : lo <= v /\ v <= hi}

\* One frame's interaction with the settings window: nothing, one of the
\* buttons, or one slider moved to a value of its range.
UiEvents ==
    {[kind |-> k, val |-> 0] : k \in {"none", "dump", "clear", "pause"}}
    \cup {[kind |-> "max_count", val |-> v] : v \in Slider(CountSamples, 1, 255)}
    \cup {[kind |-> "max_speed", val |-> v] : v \in Slider(SpeedSettingSamples, 0, 10)}
    \cup {[kind |-> "max_rate", val |-> v] : v \in Slider(RateSettingSamples, 0, 1000)}
    \cup {[kind |-> "shape", val |-> v] :
              v \in Slider(ShapeSamples \cup DegenerateSamples, 1, 500)}
    \cup {[kind |-> "scale", val |-> v] :
              v \in Slider(ScaleSamples \cup DegenerateSamples, 1, 500)}

\* The Settings value after the window has been laid out.
ApplyUi(s, ev) ==
    CASE ev.kind = "pause"     -> [s EXCEPT !.paused = ~s.paused]
      [] ev.kind = "max_count" -> [s EXCEPT !.max_count = ev.val]
      [] ev.kind = "max_speed" -> [s EXCEPT !.max_speed = ev.val]
      [] ev.kind = "max_rate"  -> [s EXCEPT !.max_rate = ev.val]
      [] ev.kind = "shape"     -> [s EXCEPT !.shape = ev.val]
      [] ev.kind = "scale"     -> [s EXCEPT !.scale = ev.val]
      [] OTHER                 -> s

\* Mutant of ApplyClear: the click leaves the dots alone.
ClearIgnored(s, ev) == s

\* if ui.button("Clear").clicked() { self.dots.clear(); }
ApplyClear(s, ev) == IF ev.kind = "clear" THEN <<>> ELSE s

\* fn model: the Settings built from the command-line options.
InitialSettings(num_dots, speed, rate) ==
    [paused |-> FALSE, max_count |-> num_dots, max_speed |-> speed,
     max_rate |-> rate, scale |-> 10, shape |-> 10]

---------------------------------------------------------------------------
(* Model::update *)

\* What the most recent call of Model::update did: the population the
\* simulation step started from (after Clear), the population after every
\* dot was updated (line 291), after retain (line 292), and whether a dot
\* was pushed.
Frame(called, cleared, delta, before, updated, kept, spawned) ==
    [called |-> called, cleared |-> cleared, dt |-> delta, before |-> before,
     updated |-> updated, kept |-> kept, spawned |-> spawned]

NoFrame == Frame(FALSE, FALSE, 0, <<>>, <<>>, <<>>, FALSE)

\* Mutant of Paused: the early return is missing.
PausedIgnored(s) == FALSE

\* if settings.paused { return }
Paused(s) == s.paused

\* Mutants of BelowTarget: the comparison off by one, in either direction.
BelowOrAtTarget(s, max_count) == Len(s) <= max_count

BelowTargetByTwo(s, max_count) == Len(s) + 1 < max_count

\* if self.dots.len() < settings.max_count.into()
BelowTarget(s, max_count) == Len(s) < max_count

\* The uniform draws of a spawn: speed over (-max_speed, max_speed),
\* growth_rate over (1.0, max_rate), ttl over (1.0, 10.0) seconds.
SpawnPanics(s) ==
    \/ RangeEmpty(-s.max_speed, s.max_speed)
    \/ RangeEmpty(1, s.max_rate)

SpeedDraws(s) == random_range(-s.max_speed, s.max_speed) \cap SpeedSamples
GrowthDraws(s) == random_range(1, s.max_rate) \cap GrowthSamples
TtlDraws == random_range(1, 10) \cap TtlSamples

\* radius_dist.sample(..) clamped to [0, 512]
MaxRadiusDraws == {Clamp(g, 0, MaxRadiusLimit) : g \in GammaSamples}

\* random_color(): each channel drawn from its range
ColorDraws ==
    {c \in ColorSamples : /\ c[1] \in random_range(0, 128)
                          /\ c[2] \in random_range(0, 255)
                          /\ c[3] \in random_range(0, 255)
                          /\ c[4] \in random_range(128, 255)}

\* rand_point(): both coordinates drawn from [-500, 500)
PointDraws(points) ==
    {p \in points : /\ p[1] \in random_range(-500, 500)
                    /\ p[2] \in random_range(-500, 500)}

\* Mutant of StepSettings: the step works on the Settings of the frame before.
StaleSettings(before_ui, after_ui) == before_ui

\* let settings = &mut self.settings: the window writes through this
\* reference and the simulation step reads through it afterwards.
StepSettings(before_ui, after_ui) == after_ui

\* The settings window and the simulation step of Model::update; `origins`
\* and `pivots` are the points the two calls of rand_point may return.
SimulationFrame(ev, delta, origins, pivots) ==
    /\ ~crashed
    /\ LET written == ApplyUi(settings, ev)
           s1      == StepSettings(settings, written)
           cleared == ev.kind = "clear"
           before  == ApplyClear(dots, ev)
           updated == UpdateAll(before, delta)
           kept    == Retain(updated)
       IN  /\ settings' = written
           /\ IF Paused(s1)
              THEN \* return before the simulation step
                   /\ dots' = before
                   /\ crashed' = FALSE
                   /\ last' = Frame(TRUE, cleared, delta, before, before, before, FALSE)
              ELSE IF ~GammaNewOk(s1.shape, s1.scale)
              THEN \* Gamma::new(..).unwrap() panics after the retain
                   /\ dots' = kept
                   /\ crashed' = TRUE
                   /\ last' = Frame(TRUE, cleared, delta, before, updated, kept, FALSE)
              ELSE IF ~BelowTarget(kept, s1.max_count)
              THEN \* the gamma sample is drawn and dropped
                   /\ dots' = kept
                   /\ crashed' = FALSE
                   /\ last' = Frame(TRUE, cleared, delta, before, updated, kept, FALSE)
              ELSE IF SpawnPanics(s1)
              THEN \* a uniform draw over an empty range panics before the push
                   /\ dots' = kept
                   /\ crashed' = TRUE
                   /\ last' = Frame(TRUE, cleared, delta, before, updated, kept, FALSE)
              ELSE \E c \in ColorDraws, o \in PointDraws(origins),
                      p \in PointDraws(pivots), m \in MaxRadiusDraws,
                      sp \in SpeedDraws(s1), gr \in GrowthDraws(s1), t \in TtlDraws :
                       /\ dots' = Append(kept, BuildDot(c, o, p, m, sp, gr, t))
                       /\ crashed' = FALSE
                       /\ last' = Frame(TRUE, cleared, delta, before, updated, kept, TRUE)

---------------------------------------------------------------------------
(* The Radius plot *)

Max(a, b) == IF a >= b THEN a ELSE b

Min(a, b) == IF a <= b THEN a ELSE b

\* Histogram::with_buckets(10)
NumBuckets == 10

\* Model { x_limit: 100, .. }
InitialXLimit == 100

SeqMax(s) == CHOOSE m \in {s[i] : i \in 1..Len(s)} : \A i \in 1..Len(s) : s[i] <= m

SeqMin(s) == CHOOSE m \in {s[i] : i \in 1..Len(s)} : \A i \in 1..Len(s) : m <= s[i]

\* for d in self.dots.iter() { hist.add(d.radius as u64) }
Radii(s) == [i \in 1..Len(s) |-> s[i].radius]

\* for d in self.dots.iter() { hist.add(d.max_radius as u64) }
MaxRadii(s) == [i \in 1..Len(s) |-> s[i].max_radius]

\* histo: the buckets share one width, max(1, (range + range % n) / n) with
\* range = max - min of the samples, and start at the least sample.
BucketSize(samples) ==
    LET range == SeqMax(samples) - SeqMin(samples)
    IN  Max(1, (range + (range % NumBuckets)) \div NumBuckets)

\* hist.buckets().map(|b| b.end()).max().unwrap_or(0): a histogram without
\* samples has no buckets.
XMax(samples) ==
    IF samples = <<>> THEN 0
    ELSE SeqMin(samples) + NumBuckets * BucketSize(samples)

\* Mutant of DecayedLimit: the previous limit is kept as it is.
UndecayedLimit(prev) == prev

\* (self.x_limit as f64 * 0.995) as u64: the cast drops the fraction
DecayedLimit(prev) == (prev * 995) \div 1000

\* vec![x_limit as u64, x_max1, x_max2].into_iter().max()
NewXLimit(prev, x_max1, x_max2) == Max(Max(DecayedLimit(prev), x_max1), x_max2)

\* What the Radius plot of the most recent frame showed and did.
Shown(prev, plotted) ==
    [refreshed |-> TRUE, prev_limit |-> prev, plotted |-> plotted,
     x_max |-> Max(XMax(Radii(plotted)), XMax(MaxRadii(plotted)))]

NotShown == [refreshed |-> FALSE, prev_limit |-> InitialXLimit, plotted |-> <<>>, x_max |-> 0]

\* Model::update without the Radius plot.
UpdateStep(ev, delta) ==
    /\ SimulationFrame(ev, delta, PointSamples, PointSamples)
    /\ UNCHANGED <<x_limit, hist>>

\* Model::update: the settings window, the plots of the population as it is
\* after Clear, then the simulation step.
ModelUpdate(ev, delta) ==
    /\ SimulationFrame(ev, delta, PointSamples, PointSamples)
    /\ LET plotted == ApplyClear(dots, ev)
       IN  /\ x_limit' = NewXLimit(x_limit, XMax(Radii(plotted)), XMax(MaxRadii(plotted)))
           /\ hist' = Shown(x_limit, plotted)

---------------------------------------------------------------------------
(* Specifications *)

\* fn model: Settings from the command-line options, no dots.
Init ==
    /\ \E n \in CountSamples, sp \in SpeedSettingSamples, r \in RateSettingSamples :
           settings = InitialSettings(n, sp, r)
    /\ dots = <<>>
    /\ crashed = FALSE
    /\ x_limit = InitialXLimit
    /\ last = NoFrame
    /\ hist = NotShown

\* The same, with a Settings value whose shape or scale did not come from
\* the sliders (Settings is a plain struct of f32 fields).
InitDegenerate ==
    /\ \E n \in CountSamples, sp \in SpeedSettingSamples, r \in RateSettingSamples,
          sh \in DegenerateSamples \cup ShapeSamples,
          sc \in DegenerateSamples \cup ScaleSamples :
           settings = [InitialSettings(n, sp, r) EXCEPT !.shape = sh, !.scale = sc]
    /\ dots = <<>>
    /\ crashed = FALSE
    /\ x_limit = InitialXLimit
    /\ last = NoFrame
    /\ hist = NotShown

Next == \E ev \in UiEvents, delta \in DtSamples : UpdateStep(ev, delta)

Spec == Init /\ [][Next]_vars

SpecDegenerate == InitDegenerate /\ [][Next]_vars

\* The program started without options (num_dots 1, speed 1.0, rate 100.0),
\* with the buttons as the only interaction.
DefaultSettings == InitialSettings(1, 1, 100)

InitDefault ==
    /\ settings = DefaultSettings
    /\ dots = <<>>
    /\ crashed = FALSE
    /\ x_limit = InitialXLimit
    /\ last = NoFrame
    /\ hist = NotShown

ButtonEvents == {ev \in UiEvents : ev.kind \in {"none", "clear", "pause"}}

NextPlots == \E ev \in ButtonEvents, delta \in DtSamples : ModelUpdate(ev, delta)

SpecPlots == InitDefault /\ [][NextPlots]_vars

\* What the settings window of the most recent frame wrote, and how many
\* dots there were when the frame began.
Wrote(s, ev, start) ==
    [wrote |-> IF ApplyUi(s, ev) = s THEN "none" ELSE ev.kind, start |-> start]

NothingWritten == [wrote |-> "none", start |-> 0]

UiFrame(ev, delta) ==
    /\ SimulationFrame(ev, delta, PointSamples, PointSamples)
    /\ UNCHANGED x_limit
    /\ hist' = Wrote(settings, ev, Len(dots))

InitUi ==
    /\ \E n \in CountSamples, sp \in SpeedSettingSamples, r \in RateSettingSamples :
           settings = InitialSettings(n, sp, r)
    /\ dots = <<>>
    /\ crashed = FALSE
    /\ x_limit = InitialXLimit
    /\ last = NoFrame
    /\ hist = NothingWritten

\* SpecUi explores every interaction with the settings window, at a steady
\* frame time.
SteadyDtSamples == {1}

NextUi == \E ev \in UiEvents, delta \in SteadyDtSamples : UiFrame(ev, delta)

SpecUi == InitUi /\ [][NextUi]_vars

\* The life of one dot at a time, from its push to its removal: the dot as
\* it was pushed and the unpaused time that has elapsed since.  With
\* max_count = 1 the followed dot is the only one.  A dot pushed in the frame
\* that removes the followed one is not followed; the one after it is.
NotTracked == [track |-> "none", born |-> <<>>, lived |-> 0]

Track(h, delta, paused, frame, after) ==
    IF h.track = "alive"
    THEN IF paused THEN h
         ELSE [h EXCEPT !.lived = @ + delta,
                        !.track = IF frame.kept = <<>> THEN "gone" ELSE "alive"]
    ELSE IF frame.spawned /\ frame.kept = <<>>
         THEN [track |-> "alive", born |-> after[1], lived |-> 0]
         ELSE h

LifeEvents == {ev \in UiEvents : ev.kind \in {"none", "pause"}}

LifeFrame(ev, delta) ==
    /\ SimulationFrame(ev, delta, OrbitOriginSamples, OrbitPivotSamples)
    /\ UNCHANGED x_limit
    /\ hist' = Track(hist, delta, settings'.paused, last', dots')

InitLife ==
    /\ settings = DefaultSettings
    /\ dots = <<>>
    /\ crashed = FALSE
    /\ x_limit = InitialXLimit
    /\ last = NoFrame
    /\ hist = NotTracked

NextLife == \E ev \in LifeEvents, delta \in DtSamples : LifeFrame(ev, delta)

\* Frames keep arriving with time passing between them, and the simulation
\* is resumed time and again: nannou calls update once per rendered frame
\* with the real time since the previous one.
LiveTick ==
    \E delta \in DtSamples \ {0} :
        LifeFrame([kind |-> IF settings.paused THEN "pause" ELSE "none", val |-> 0], delta)

SpecLife == InitLife /\ [][NextLife]_vars /\ WF_vars(LiveTick)

---------------------------------------------------------------------------
(* Helpers for the properties *)

\* The last call of Model::update ran its simulation step (it was not paused).
Ticked == last.called /\ ~settings.paused

\* Indices of the dots the last simulation step started from.
Started == 1..Len(last.before)

\* The dot pushed by the last simulation step (when last.spawned).
Pushed == dots[Len(dots)]

---------------------------------------------------------------------------
(* C1 *)

\* C1: after Dot::update(dt), dt >= 0, a dot's radius is at most its
\* max_radius: growth is clamped when radius + growth_rate * dt would exceed
\* max_radius.  Stated for every dot that entered the update within its
\* target (radius <= max_radius).
C1_RadiusNeverOvershoots ==
    Ticked =>
        \A i \in Started :
            last.before[i].radius <= last.before[i].max_radius
                => last.updated[i].radius <= last.updated[i].max_radius

---------------------------------------------------------------------------
(* C2 *)

---------------------------------------------------------------------------
(* C3 *)

\* The simulation step started from an empty population, with valid gamma
\* parameters and dt > 0.
StartedEmpty ==
    /\ Ticked
    /\ last.before = <<>>
    /\ GammaNewOk(settings.shape, settings.scale)
    /\ last.dt > 0

\* C3 as claimed: from an empty population with max_count = n and valid gamma
\* parameters, one unpaused tick with dt > 0 that completes leaves n dots.
C3_FillToTargetInOneTick ==
    (StartedEmpty /\ ~crashed) => Len(dots) = settings.max_count

\* C3 as amended: from an empty population with max_count = n and valid gamma
\* parameters, one unpaused tick with dt > 0 pushes at most one dot: the
\* population size is 1 when n >= 1 and the spawn's draws succeed, and 0
\* otherwise.
C3_OneSpawnFromEmpty ==
    StartedEmpty =>
        Len(dots) = (IF settings.max_count >= 1 /\ ~crashed THEN 1 ELSE 0)

\* A tick from an empty population with a target of at least 2 that
\* completed and left a single dot.
C3_Witness ==
    /\ StartedEmpty
    /\ ~crashed
    /\ settings.max_count >= 2
    /\ Len(dots) = 1

---------------------------------------------------------------------------
(* C4 *)

\* C4: a tick pushes a dot only when the size after the cull is below
\* settings.max_count, so the size after a tick is at most the larger of the
\* size the tick started from and settings.max_count, and a push never takes
\* the population above settings.max_count, also after max_count was lowered
\* below the current size.
C4_PopulationBound ==
    last.called =>
        /\ Len(dots) <= Max(Len(last.before), settings.max_count)
        /\ last.spawned =>
               /\ Len(last.kept) < settings.max_count
               /\ Len(dots) <= settings.max_count

\* A tick that ran with max_count below the size it started from, and one
\* that pushed a dot reaching the target exactly.
C4_Witness ==
    /\ Ticked
    /\ ~crashed
    /\ Len(last.before) > settings.max_count
    /\ Len(dots) = Len(last.before)

---------------------------------------------------------------------------
(* C5 *)

\* C5: in a frame where settings.paused is true and Clear was not clicked, no
\* dot is updated, removed or pushed: the population after the frame is the
\* population before it, for any dt.
C5_PauseFreezes ==
    (last.called /\ settings.paused /\ ~last.cleared) =>
        /\ dots = last.before
        /\ ~last.spawned

\* A paused frame with dt > 0 over a population holding a dot that an
\* update would have changed.
C5_Witness ==
    /\ last.called
    /\ settings.paused
    /\ ~last.cleared
    /\ last.dt > 0
    /\ \E i \in 1..Len(dots) : DotUpdate(dots[i], last.dt) /= dots[i]

---------------------------------------------------------------------------
(* C6 *)

\* The liveness predicate as the claim words it.
C6_NotAlive(d) == d.ttl = 0 \/ d.radius = d.max_radius

C6_Alive(d) == ~C6_NotAlive(d)

\* C6: in an unpaused tick, after the update of every dot, a dot is removed
\* if and only if it is not alive, where not alive means exactly
\* time_to_live = 0 or radius = max_radius.
C6_CullPredicate ==
    Ticked => last.kept = SelectSeq(last.updated, C6_Alive)

---------------------------------------------------------------------------
(* C7 *)

\* C7: after Dot::update(dt), dt >= 0, the new time_to_live is
\* max(0, old time_to_live - dt), hence 0 <= new <= old, also when dt exceeds
\* the remaining time.
C7_TtlFlooredAtZero ==
    Ticked =>
        /\ Len(last.updated) = Len(last.before)
        /\ \A i \in Started :
               /\ last.updated[i].ttl = Max(0, last.before[i].ttl - last.dt)
               /\ 0 <= last.updated[i].ttl
               /\ last.updated[i].ttl <= last.before[i].ttl

\* A tick whose dt exceeded the remaining time of a dot.
C7_Witness ==
    /\ Ticked
    /\ \E i \in Started :
           /\ last.before[i].ttl > 0
           /\ last.before[i].ttl < last.dt
           /\ last.updated[i].ttl = 0

---------------------------------------------------------------------------
(* C8 *)

\* Number of dots of the last tick whose time_to_live outlasted dt.
Outlasting == Cardinality({i \in Started : last.before[i].ttl > last.dt})

\* C8: a dot whose time_to_live is at most dt at the start of an unpaused
\* tick has time_to_live = 0 after its update and is not in the population
\* after the cull: no dot of the population has time_to_live = 0, and apart
\* from a pushed dot the population holds at most the dots that outlasted dt.
C8_ExpiredIsRemoved ==
    Ticked =>
        /\ \A i \in Started :
               last.before[i].ttl <= last.dt => last.updated[i].ttl = 0
        /\ \A j \in 1..Len(dots) : dots[j].ttl > 0
        /\ Len(dots) - (IF last.spawned THEN 1 ELSE 0) <= Outlasting

\* A tick in which a dot that was still growing towards its target ran out
\* of time and was dropped.
C8_Witness ==
    /\ Ticked
    /\ \E i \in Started :
           /\ last.before[i].ttl > 0
           /\ last.before[i].ttl <= last.dt
           /\ last.updated[i].radius < last.updated[i].max_radius
    /\ Outlasting = 0
    /\ Len(last.kept) = 0

---------------------------------------------------------------------------
(* C9 *)

\* C9: in every state every dot of the population has
\* 10 <= radius <= max_radius and time_to_live >= 0, also right after a push.
C9_ParticleInvariant ==
    \A j \in 1..Len(dots) :
        /\ DefaultRadius <= dots[j].radius
        /\ dots[j].radius <= dots[j].max_radius
        /\ dots[j].ttl >= 0

---------------------------------------------------------------------------
(* C10 *)

\* C10: every pushed dot has 1 <= time_to_live <= 10, 0 <= max_radius <= 512,
\* radius 10, speed within [-max_speed, max_speed] and growth_rate within
\* [1, max_rate] of the Settings in force during that tick.
C10_SpawnedRanges ==
    last.spawned =>
        /\ 1 <= Pushed.ttl /\ Pushed.ttl <= 10
        /\ 0 <= Pushed.max_radius /\ Pushed.max_radius <= MaxRadiusLimit
        /\ Pushed.radius = DefaultRadius
        /\ -settings.max_speed <= Pushed.speed
        /\ Pushed.speed <= settings.max_speed
        /\ 1 <= Pushed.growth_rate
        /\ Pushed.growth_rate <= settings.max_rate

---------------------------------------------------------------------------
(* C11 *)

\* C11 as stated: at each refresh of the Radius plot the new x_limit equals
\* max(0.995 * previous x_limit, largest bucket upper bound of the two
\* radius series), with 0.995 * previous taken as a real number.
C11_RealDecay ==
    hist.refreshed =>
        1000 * x_limit = Max(995 * hist.prev_limit, 1000 * hist.x_max)

\* C11 (amended): at each refresh of the Radius plot the new x_limit equals
\* max(floor(0.995 * previous x_limit), largest bucket upper bound of the
\* two radius series); it does not increase in a frame where no bucket
\* upper bound exceeds 0.995 * previous x_limit, and in a frame where a
\* larger bound appears it is exactly that bound.
C11_TruncatedDecay ==
    hist.refreshed =>
        /\ x_limit = Max((995 * hist.prev_limit) \div 1000, hist.x_max)
        /\ 1000 * hist.x_max <= 995 * hist.prev_limit => x_limit <= hist.prev_limit
        /\ 1000 * hist.x_max > 995 * hist.prev_limit => x_limit = hist.x_max

\* A frame whose plot showed a bucket bound above the previous limit.
C11_Witness ==
    /\ hist.refreshed
    /\ hist.plotted # <<>>
    /\ hist.x_max > hist.prev_limit
    /\ x_limit = hist.x_max

---------------------------------------------------------------------------
(* C12 *)

\* C12: the histograms (and x_limit) produced in a frame describe the
\* population as it stands after that frame's update, cull and spawn: the
\* plotted radius and max_radius samples are those of the dots the frame
\* leaves behind.
C12_DiagnosticsAfterUpdate ==
    hist.refreshed =>
        /\ Radii(hist.plotted) = Radii(dots)
        /\ MaxRadii(hist.plotted) = MaxRadii(dots)

---------------------------------------------------------------------------
(* C13 *)

\* C13: the simulation step of a frame works on the Settings as the
\* settings window of that same frame left them.  Paused after the window:
\* no dot is updated, culled or spawned.  Not paused after the window: every
\* dot is updated and the dead ones are dropped; a dot is pushed only below
\* the max_count just written, with speed and growth_rate drawn from the
\* ranges just written; and a panic comes from the values just written.
C13_StepUsesWrittenSettings ==
    last.called =>
        /\ settings.paused =>
              /\ dots = last.before
              /\ last.updated = last.before
              /\ last.kept = last.before
              /\ ~last.spawned
        /\ ~settings.paused =>
              /\ last.updated = UpdateAll(last.before, last.dt)
              /\ last.kept = Retain(last.updated)
        /\ last.spawned =>
              /\ Len(last.kept) < settings.max_count
              /\ Pushed.speed \in random_range(-settings.max_speed, settings.max_speed)
              /\ Pushed.growth_rate \in random_range(1, settings.max_rate)
        /\ (Ticked /\ ~last.spawned /\ ~crashed) => Len(last.kept) >= settings.max_count
        /\ crashed => SpawnPanics(settings) \/ ~GammaNewOk(settings.shape, settings.scale)

\* Pause was toggled on in a frame that began with a dot which an update of
\* that frame's length would have changed.
C13_Witness ==
    /\ hist.wrote = "pause"
    /\ settings.paused
    /\ last.dt > 0
    /\ dots # <<>>
    /\ UpdateAll(dots, last.dt) # dots

---------------------------------------------------------------------------
(* C14 *)

\* C14: for every Settings reachable through the startup options and the
\* sliders (max_speed = 0 and max_rate <= 1 included), the uniform draws of
\* a spawn complete: an unpaused tick that is below target after the cull
\* pushes its dot and does not crash.
C14_UniformDrawsTotal ==
    (Ticked /\ GammaNewOk(settings.shape, settings.scale)
            /\ Len(last.kept) < settings.max_count)
        => last.spawned /\ ~crashed

---------------------------------------------------------------------------
(* C15 *)

\* Squared distance between two points.
Dist2(a, b) == (a[1] - b[1]) * (a[1] - b[1]) + (a[2] - b[2]) * (a[2] - b[2])

\* C15: Dot::update leaves the distance between origin and pivot of every
\* dot as it was before the update, and a dot stays at the distance from
\* its pivot at which it was pushed for as long as it lives.
C15_OrbitPreservesDistance ==
    /\ Ticked =>
          \A i \in Started :
              Dist2(last.updated[i].origin, last.updated[i].pivot)
                  = Dist2(last.before[i].origin, last.before[i].pivot)
    /\ hist.track = "alive" =>
          Dist2(dots[1].origin, dots[1].pivot) = Dist2(hist.born.origin, hist.born.pivot)

\* A dot pushed away from its pivot has been turned to another place.
C15_Witness ==
    /\ hist.track = "alive"
    /\ Ticked
    /\ hist.born.origin # hist.born.pivot
    /\ dots[1].origin # hist.born.origin

---------------------------------------------------------------------------
(* C16 *)

\* C16: every unpaused tick whose post-cull population is below
\* settings.max_count appends exactly one dot, every tick whose post-cull
\* population is at or above settings.max_count appends none, and the
\* population grows by at most one dot per tick.
C16_SpawnRate ==
    Ticked =>
        /\ Len(last.kept) < settings.max_count =>
              /\ last.spawned
              /\ Len(dots) = Len(last.kept) + 1
        /\ Len(last.kept) >= settings.max_count =>
              /\ ~last.spawned
              /\ dots = last.kept
        /\ Len(dots) <= Len(last.before) + 1

---------------------------------------------------------------------------
(* C17 *)

\* C17: while unpaused ticks with dt > 0 keep arriving, every dot leaves the
\* population: a dot that is still there has lived (unpaused) less than the
\* time to live it was pushed with, a dot that has come through a cull has
\* a radius below its max_radius, and a dot that is there is eventually
\* gone.
C17_EventuallyRemoved ==
    /\ [](hist.track = "alive" => hist.lived < hist.born.ttl)
    /\ []((hist.track = "alive" /\ Ticked /\ ~last.spawned)
             => dots[1].radius < dots[1].max_radius)
    /\ (hist.track = "alive") ~> (hist.track = "gone")

\* A dot was removed by the cull of the tick in which its unpaused life
\* reached its time to live, its radius still below max_radius.
C17_Witness ==
    /\ hist.track = "gone"
    /\ hist.lived >= hist.born.ttl
    /\ hist.born.ttl <= 10
    /\ \A i \in Started : last.updated[i].radius < last.updated[i].max_radius

---------------------------------------------------------------------------
(* C18 *)

\* The fields of a dot that Dot::update does not assign.
Fixed(d) == <<d.color, d.pivot, d.max_radius, d.speed, d.growth_rate>>

\* C18: Dot::update changes only ttl, radius and origin: across every frame,
\* whatever the settings window wrote in it, each dot keeps its color, pivot,
\* max_radius, speed and growth_rate, and the dots that stay are those
\* updated dots, unaltered by the cull and the push.
C18_FixedFields ==
    last.called =>
        /\ \A i \in Started : Fixed(last.updated[i]) = Fixed(last.before[i])
        /\ \A i \in 1..Len(last.kept) :
              /\ dots[i] = last.kept[i]
              /\ \E j \in Started : last.kept[i] = last.updated[j]

\* The Growth Rate slider was moved below the growth_rate of a dot, and that
\* dot was updated in the same frame and stayed.
C18_Witness ==
    /\ hist.wrote = "max_rate"
    /\ Ticked
    /\ last.dt > 0
    /\ \E i \in 1..Len(last.kept) :
          /\ dots[i].growth_rate > settings.max_rate
          /\ dots[i].radius > DefaultRadius

---------------------------------------------------------------------------
(* C19 *)

\* C19: in a frame where Clear is clicked no dot that existed before the
\* frame is left afterwards: the simulation step starts from no dots, the
\* population after the frame is empty if the frame is paused, and otherwise
\* it holds exactly the dot pushed by that frame, if one was pushed.
C19_ClearEmpties ==
    last.cleared =>
        /\ last.before = <<>>
        /\ settings.paused => dots = <<>>
        /\ ~settings.paused => Len(dots) = (IF last.spawned THEN 1 ELSE 0)

\* Clear was clicked on a population of two dots in an unpaused frame,
\* which then pushed one dot.
C19_Witness ==
    /\ last.cleared
    /\ hist.start = 2
    /\ ~settings.paused
    /\ last.spawned
    /\ Len(dots) = 1

---------------------------------------------------------------------------
(* C20 *)

\* C20: from the initial shape = 10, scale = 10 and under any sequence of
\* slider edits, shape and scale stay within [1, 500], so Gamma::new
\* succeeds in every unpaused tick, also in ticks that push no dot.
C20_GammaParametersValid ==
    /\ 1 <= settings.shape /\ settings.shape <= 500
    /\ 1 <= settings.scale /\ settings.scale <= 500
    /\ Ticked => GammaNewOk(settings.shape, settings.scale)

\* The Shape slider was dragged to its least value and an unpaused tick on
\* a full population then completed without a push.
C20_Witness ==
    /\ settings.shape = 1
    /\ Ticked
    /\ ~crashed
    /\ ~last.spawned
    /\ dots # <<>>
    /\ Len(dots) >= settings.max_count

====
